---- MODULE Spec2Model ----
(***************************************************************************)
(* Near-duplicate fingerprinting engine of sycamore/functions/simhash.py:  *)
(* the bounded max-heap selector (downHeap, heapUpdate), the scrambler     *)
(* (scramble), the shingle extractor (shinglesCalc), the SimHash reducer   *)
(* (simHash, simHashText) and the distances (shinglesDist, simHashesDist). *)
(*                                                                         *)
(* A 64-bit value is a little-endian sequence of 8 limbs, each in 0..255   *)
(* (index 1 is the least significant byte), so that the arithmetic of      *)
(* scramble keeps its full width.  A Python list is a sequence; the Python *)
(* index i is the sequence index i + 1 (At, Put).                          *)
(***************************************************************************)
EXTENDS Integers, Sequences, FiniteSets, TLC

VARIABLES
    \* shinglesCalc(text, window, courses, tabs)
    text,       \* the bytes of the text
    window,     \* width of the sliding window
    courses,    \* number of least-value hashes kept per tab
    tabs,       \* number of variants
    pos,        \* index of the next byte of `for x in text`
    rkbuf,      \* RkWindow: the last (at most `window`) bytes fed
    hashOf,     \* RkWindow: the hash of every window content met so far
    hh,         \* the local hh (None before the first hash)
    j,          \* index of the next heap of `for heap in heaps`
    heaps,      \* the list of heaps
    rv,         \* the list returned
    pc,         \* position in shinglesCalc
    emitted,    \* history: the rolling hashes ww.get() returned, in order
    passed,     \* history: per tab, the items passed to heapUpdate, in order
    \* a heap under a sequence of heapUpdate calls
    heap,       \* the heap list
    cap,        \* the `courses` the heap was built for
    fed,        \* history: the items passed to heapUpdate, in order
    \* scramble applied to a value
    sval,       \* the argument
    sout,       \* the result (None before the call)
    stimes,     \* how many times in sequence scramble was applied
    \* simHashText(text, window, courses, tabs), around shinglesCalc
    sims,       \* the list returned (None before the return)
    \* simHash(tab)
    stab,       \* the argument
    shash,      \* the result (None before the call)
    \* simHashesDistFast(aa, bb) and simHashesDistSlow(aa, bb)
    daa,        \* the first list of SimHashes
    dbb,        \* the second list of SimHashes
    dfast,      \* what simHashesDistFast returned (None before the call)
    dslow,      \* what simHashesDistSlow returned (None before the call)
    \* shinglesDist(aa, bb)
    maa,        \* the first matrix
    mbb,        \* the second matrix
    mii,        \* the loop index ii
    numer,      \* the local numer
    denom,      \* the local denom
    mdist,      \* the value returned, a fraction <<p, q>> (None before the return)
    mpc         \* position in shinglesDist

vars == <<text, window, courses, tabs, pos, rkbuf, hashOf, hh, j, heaps, rv, pc,
          emitted, passed, heap, cap, fed, sval, sout, stimes, sims, stab, shash,
          daa, dbb, dfast, dslow, maa, mbb, mii, numer, denom, mdist, mpc>>

shingleVars == <<text, window, courses, tabs, pos, rkbuf, hashOf, hh, j, heaps, rv,
                 pc, emitted, passed>>
heapVars == <<heap, cap, fed>>
scrambleVars == <<sval, sout, stimes>>
textVars == <<sims>>
simVars == <<stab, shash>>
distVars == <<daa, dbb, dfast, dslow>>
matVars == <<maa, mbb, mii, numer, denom, mdist, mpc>>

\* what the steps of one function leave alone: the variables of the others
notShingles == <<heapVars, scrambleVars, simVars, distVars, matVars>>
notHeap == <<shingleVars, textVars, scrambleVars, simVars, distVars, matVars>>
notScramble == <<shingleVars, textVars, heapVars, simVars, distVars, matVars>>
notSim == <<shingleVars, textVars, heapVars, scrambleVars, distVars, matVars>>
notDist == <<shingleVars, textVars, heapVars, scrambleVars, simVars, matVars>>
notMat == <<shingleVars, textVars, heapVars, scrambleVars, simVars, distVars>>

\* Bounds of the model.
MaxLen == 3         \* longest text
MaxWindow == 2      \* widest sliding window
MaxCourses == 3     \* largest `courses`
MaxTabs == 2        \* largest `tabs`
MaxUpdates == 4     \* longest sequence of heapUpdate calls on the single heap

None == <<>>

Min(a, b) == IF a <= b THEN a ELSE b
Max(a, b) == IF a >= b THEN a ELSE b

(***************************************************************************)
(* Unbounded natural numbers (Python ints) as little-endian limb sequences *)
(***************************************************************************)
LimbOf(a, i) == IF i <= Len(a) THEN a[i] ELSE 0

RECURSIVE AddFrom(_, _, _, _, _)
AddFrom(a, b, i, n, carry) ==
    IF i > n THEN <<carry>>
    ELSE LET s == LimbOf(a, i) + LimbOf(b, i) + carry
         IN  <<s % 256>> \o AddFrom(a, b, i + 1, n, s \div 256)

\* a + b, exact: one limb longer than the longer operand
AddBig(a, b) == AddFrom(a, b, 1, Max(Len(a), Len(b)), 0)

\* the sum of a[i] * b[k - i + 1] for i in lo..hi: column k of the product
RECURSIVE ColumnSum(_, _, _, _, _)
ColumnSum(a, b, k, lo, hi) ==
    IF lo > hi THEN 0
    ELSE a[lo] * b[k - lo + 1] + ColumnSum(a, b, k, lo + 1, hi)

RECURSIVE MulFrom(_, _, _, _)
MulFrom(a, b, k, carry) ==
    IF k > Len(a) + Len(b) THEN <<>>
    ELSE LET s == ColumnSum(a, b, k, Max(1, k - Len(b) + 1), Min(Len(a), k)) + carry
         IN  <<s % 256>> \o MulFrom(a, b, k + 1, s \div 256)

\* a * b, exact: Len(a) + Len(b) limbs
MulBig(a, b) == MulFrom(a, b, 1, 0)

RECURSIVE BitsAnd(_, _, _)
BitsAnd(x, y, n) ==
    IF n = 0 THEN 0
    ELSE (IF x % 2 = 1 /\ y % 2 = 1 THEN 1 ELSE 0) + 2 * BitsAnd(x \div 2, y \div 2, n - 1)

\* a & m for a mask m: a limb of a beyond the mask is ANDed with 0
AndBig(a, m) == [i \in 1..Len(m) |-> BitsAnd(LimbOf(a, i), m[i], 8)]

\* acc * 10 + digit on 8 limbs, from limb i on
RECURSIVE TimesTenPlus(_, _, _)
TimesTenPlus(acc, i, carry) ==
    IF i > 8 THEN <<>>
    ELSE LET s == acc[i] * 10 + carry
         IN  <<s % 256>> \o TimesTenPlus(acc, i + 1, s \div 256)

\* the value of the first n digits of a decimal literal below 2^64, as 8 limbs
RECURSIVE FromDecimalUpTo(_, _)
FromDecimalUpTo(digits, n) ==
    IF n = 0 THEN <<0, 0, 0, 0, 0, 0, 0, 0>>
    ELSE LET acc == FromDecimalUpTo(digits, n - 1)
         IN  IF Len(acc) = 8 THEN TimesTenPlus(acc, 1, digits[n]) ELSE acc

FromDecimal(digits) == FromDecimalUpTo(digits, Len(digits))

\* a small number as a 64-bit value
U64(n) == <<n % 256, n \div 256, 0, 0, 0, 0, 0, 0>>

RECURSIVE LtFrom(_, _, _)
LtFrom(a, b, i) ==
    IF i = 0 THEN FALSE
    ELSE IF a[i] # b[i] THEN a[i] < b[i]
    ELSE LtFrom(a, b, i - 1)

\* a < b on 64-bit values
Lt64(a, b) == LtFrom(a, b, 8)

(***************************************************************************)
(* scramble                                                                *)
(***************************************************************************)
\* 0xFFFFFFFFFFFFFFFF, the mask of scramble
Mask64 == <<255, 255, 255, 255, 255, 255, 255, 255>>

\* 6364136223846793005
MulConst == FromDecimal(<<6, 3, 6, 4, 1, 3, 6, 2, 2, 3, 8, 4, 6, 7, 9, 3, 0, 0, 5>>)

\* 9223372036854775783
AddConst == FromDecimal(<<9, 2, 2, 3, 3, 7, 2, 0, 3, 6, 8, 5, 4, 7, 7, 5, 7, 8, 3>>)

\* mutant: the constant is added before the multiplication
scrambleAddFirst(val) ==
    AndBig(MulBig(AddBig(val, AddConst), MulConst), Mask64)

\* mutant: the mask is 0x7FFFFFFFFFFFFFFF
scrambleMask63(val) ==
    AndBig(AddBig(MulBig(val, MulConst), AddConst),
           <<255, 255, 255, 255, 255, 255, 255, 127>>)

scramble(val) == AndBig(AddBig(MulBig(val, MulConst), AddConst), Mask64)

(***************************************************************************)
(* downHeap, heapUpdate                                                    *)
(***************************************************************************)
\* 0xFFFFFFFFFFFFFFFF, the value every heap slot starts with
Sentinel == <<255, 255, 255, 255, 255, 255, 255, 255>>

At(list, i) == list[i + 1]
Put(list, i, v) == [list EXCEPT ![i + 1] = v]

\* [0xFFFFFFFFFFFFFFFF for i in range(courses + 1)]
NewHeap(c) == [i \in 1..(c + 1) |-> Sentinel]

\* mutant: the loop never looks at the right kid
RECURSIVE downHeapLoopLeftKid(_, _, _, _, _)
downHeapLoopLeftKid(h, idx, val, nn, limit) ==
    IF idx <= limit
    THEN LET kid == 2 * idx
             kidVal == At(h, kid)
         IN  IF Lt64(kidVal, val)
             THEN Put(h, idx, val)
             ELSE downHeapLoopLeftKid(Put(h, idx, kidVal), kid, val, nn, limit)
    ELSE Put(h, idx, val)

\* the while loop of downHeap, with the final heap[idx] = val
RECURSIVE downHeapLoop(_, _, _, _, _)
downHeapLoop(h, idx, val, nn, limit) ==
    IF idx <= limit
    THEN LET kid0 == 2 * idx
             kid == IF (kid0 < nn) /\ Lt64(At(h, kid0), At(h, kid0 + 1))
                    THEN kid0 + 1 ELSE kid0
             kidVal == At(h, kid)
         IN  IF Lt64(kidVal, val)
             THEN Put(h, idx, val)
             ELSE downHeapLoop(Put(h, idx, kidVal), kid, val, nn, limit)
    ELSE Put(h, idx, val)

downHeap(h, idx) ==
    LET nn == Len(h) - 1
        limit == nn \div 2
        val == At(h, idx)
    IN  downHeapLoop(h, idx, val, nn, limit)

\* mutant: the new root is left where it is, downHeap is not called
heapUpdateNoDownHeap(h, item) ==
    IF Lt64(item, At(h, 1))
    THEN Put(h, 1, item)
    ELSE h

\* mutant: the root is replaced whatever the item is
heapUpdateAlways(h, item) ==
    downHeap(Put(h, 1, item), 1)

\* mutant: the test is item != heap[1]
heapUpdateIfDifferent(h, item) ==
    IF item # At(h, 1)
    THEN downHeap(Put(h, 1, item), 1)
    ELSE h

\* mutant: the root is taken to be slot 0
heapUpdateRoot0(h, item) ==
    IF Lt64(item, At(h, 1))
    THEN downHeap(Put(h, 0, item), 0)
    ELSE h

heapUpdate(h, item) ==
    IF Lt64(item, At(h, 1))
    THEN downHeap(Put(h, 1, item), 1)
    ELSE h

(***************************************************************************)
(* shinglesCalc: the finalization of one heap                              *)
(***************************************************************************)
RECURSIVE InsertAsc(_, _)
InsertAsc(sorted, v) ==
    IF sorted = <<>> THEN <<v>>
    ELSE IF Lt64(v, Head(sorted)) THEN <<v>> \o sorted
    ELSE <<Head(sorted)>> \o InsertAsc(Tail(sorted), v)

\* list.sort() on 64-bit values
RECURSIVE SortAsc(_)
SortAsc(list) ==
    IF list = <<>> THEN <<>>
    ELSE InsertAsc(SortAsc(Tail(list)), Head(list))

\* list * n
RECURSIVE Repeat(_, _)
Repeat(list, n) == IF n <= 0 THEN <<>> ELSE list \o Repeat(list, n - 1)

\* list[:n]
SliceTo(list, n) == SubSeq(list, 1, Min(n, Len(list)))

\* list(filter(lambda x: x != 0xFFFFFFFFFFFFFFFF, heap))
Retained(h) == SelectSeq(h, LAMBDA x : x # Sentinel)

\* mutant: a heap with exactly `courses` values is returned in heap order
FinalizeHeapUnsorted(h, c) ==
    LET kept == Retained(h)
        nn == Len(kept)
    IN  IF nn = c THEN kept
        ELSE IF nn = 0 THEN [i \in 1..c |-> U64(0)]
        ELSE LET copies == (c + nn - 1) \div nn
             IN  SliceTo(SortAsc(Repeat(kept, copies)), c + 1)

\* mutant: the zero fill has the length of the retained list
FinalizeHeapZeroFillRetained(h, c) ==
    LET kept == Retained(h)
        nn == Len(kept)
    IN  IF nn = c THEN SortAsc(kept)
        ELSE IF nn = 0 THEN [i \in 1..nn |-> U64(0)]
        ELSE LET copies == (c + nn - 1) \div nn
             IN  SliceTo(SortAsc(Repeat(kept, copies)), c + 1)

\* mutant: the replicated list is cut to `courses` elements
FinalizeHeapCutToCourses(h, c) ==
    LET kept == Retained(h)
        nn == Len(kept)
    IN  IF nn = c THEN SortAsc(kept)
        ELSE IF nn = 0 THEN [i \in 1..c |-> U64(0)]
        ELSE LET copies == (c + nn - 1) \div nn
             IN  SliceTo(SortAsc(Repeat(kept, copies)), c)

\* the body of the second `for heap in heaps` loop: the list appended to rv
FinalizeHeap(h, c) ==
    LET kept == Retained(h)
        nn == Len(kept)
    IN  IF nn = c THEN SortAsc(kept)
        ELSE IF nn = 0 THEN [i \in 1..c |-> U64(0)]
        ELSE LET copies == (c + nn - 1) \div nn
             IN  SliceTo(SortAsc(Repeat(kept, copies)), c + 1)

(***************************************************************************)
(* RkWindow: a window of `window` bytes whose hash is a deterministic      *)
(* function of its content; no hash before the window is full              *)
(***************************************************************************)
Bytes == {0, 1}

\* 0x8E3E74ACBED3CF78, the value scramble maps to 0xFFFFFFFFFFFFFFFF
PreSentinel == <<120, 207, 211, 190, 172, 116, 62, 142>>

\* the hash values a window may have in the model
HashVals == {U64(0), U64(2), PreSentinel}

\* ww.hash(x): the window after the byte x
RkHash(buf, w, x) ==
    LET b == Append(buf, x)
    IN  IF Len(b) > w THEN Tail(b) ELSE b

\* ww.get() may return v for the window buf, given the hashes met so far
RkGet(buf, w, known, v) ==
    IF Len(buf) < w THEN v = None
    ELSE /\ v \in HashVals
         /\ buf \in DOMAIN known => v = known[buf]

(***************************************************************************)
(* shinglesCalc                                                            *)
(***************************************************************************)
Texts == UNION {[1..n -> Bytes] : n \in 0..MaxLen}

IdleShingles ==
    /\ text = <<>> /\ window = 0 /\ courses = 0 /\ tabs = 0 /\ pos = 0
    /\ rkbuf = <<>> /\ hashOf = <<>> /\ hh = None /\ j = 0 /\ heaps = <<>>
    /\ rv = <<>> /\ pc = "idle" /\ emitted = <<>> /\ passed = <<>>
    /\ sims = None

IdleHeap == heap = <<>> /\ cap = 0 /\ fed = <<>>

IdleScramble == sval = None /\ sout = None /\ stimes = 0

IdleSim == stab = <<>> /\ shash = None

IdleDist == daa = <<>> /\ dbb = <<>> /\ dfast = None /\ dslow = None

IdleMat ==
    /\ maa = <<>> /\ mbb = <<>> /\ mii = 0 /\ numer = 0 /\ denom = 0
    /\ mdist = None /\ mpc = "idle"

\* the state after ww = RkWindow(window) and heaps = [...]
Init ==
    /\ text \in Texts
    /\ window \in 1..MaxWindow
    /\ courses \in 1..MaxCourses
    /\ tabs \in 1..MaxTabs
    /\ pos = 0
    /\ rkbuf = <<>>
    /\ hashOf = <<>>
    /\ hh = None
    /\ j = 0
    /\ heaps = [t \in 1..tabs |-> NewHeap(courses)]
    /\ rv = <<>>
    /\ pc = "feed"
    /\ emitted = <<>>
    /\ passed = [t \in 1..tabs |-> <<>>]
    /\ sims = None
    /\ IdleHeap
    /\ IdleScramble
    /\ IdleSim
    /\ IdleDist
    /\ IdleMat

\* for x in text: ww.hash(x); hh = ww.get(); if hh is not None: ...
HashByte ==
    /\ pc = "feed"
    /\ pos < Len(text)
    /\ rkbuf' = RkHash(rkbuf, window, text[pos + 1])
    /\ \E v \in HashVals \cup {None} :
          /\ RkGet(rkbuf', window, hashOf, v)
          /\ hh' = v
          /\ IF v = None
             THEN /\ pos' = pos + 1
                  /\ UNCHANGED <<hashOf, emitted, pc>>
             ELSE /\ hashOf' = (rkbuf' :> v) @@ hashOf
                  /\ emitted' = Append(emitted, v)
                  /\ IF tabs = 0
                     THEN pos' = pos + 1 /\ UNCHANGED pc
                     ELSE pc' = "tabs" /\ UNCHANGED pos
    /\ j' = 0
    /\ UNCHANGED <<text, window, courses, tabs, heaps, rv, passed>>
    /\ UNCHANGED <<textVars, notShingles>>

\* mutant: every tab scrambles the rolling hash itself, once
TabUpdateFromRaw ==
    /\ pc = "tabs"
    /\ j < tabs
    /\ hh' = scramble(emitted[Len(emitted)])
    /\ heaps' = [heaps EXCEPT ![j + 1] = heapUpdate(@, hh')]
    /\ passed' = [passed EXCEPT ![j + 1] = Append(@, hh')]
    /\ j' = j + 1
    /\ IF j + 1 = tabs
       THEN pc' = "feed" /\ pos' = pos + 1
       ELSE UNCHANGED <<pc, pos>>
    /\ UNCHANGED <<text, window, courses, tabs, rkbuf, hashOf, rv, emitted>>
    /\ UNCHANGED <<textVars, notShingles>>

\* mutant: heaps holds the same list tabs times, an update shows in every tab
TabUpdateShared ==
    /\ pc = "tabs"
    /\ j < tabs
    /\ hh' = scramble(hh)
    /\ heaps' = [t \in 1..tabs |-> heapUpdate(heaps[j + 1], hh')]
    /\ passed' = [passed EXCEPT ![j + 1] = Append(@, hh')]
    /\ j' = j + 1
    /\ IF j + 1 = tabs
       THEN pc' = "feed" /\ pos' = pos + 1
       ELSE UNCHANGED <<pc, pos>>
    /\ UNCHANGED <<text, window, courses, tabs, rkbuf, hashOf, rv, emitted>>
    /\ UNCHANGED <<textVars, notShingles>>

\* mutant: the loop over the heaps ends after the first heap
TabUpdateOnce ==
    /\ pc = "tabs"
    /\ j < tabs
    /\ hh' = scramble(hh)
    /\ heaps' = [heaps EXCEPT ![j + 1] = heapUpdate(@, hh')]
    /\ passed' = [passed EXCEPT ![j + 1] = Append(@, hh')]
    /\ j' = tabs
    /\ pc' = "feed"
    /\ pos' = pos + 1
    /\ UNCHANGED <<text, window, courses, tabs, rkbuf, hashOf, rv, emitted>>
    /\ UNCHANGED <<textVars, notShingles>>

\* for heap in heaps: hh = scramble(hh); heapUpdate(heap, hh)
TabUpdate ==
    /\ pc = "tabs"
    /\ j < tabs
    /\ hh' = scramble(hh)
    /\ heaps' = [heaps EXCEPT ![j + 1] = heapUpdate(@, hh')]
    /\ passed' = [passed EXCEPT ![j + 1] = Append(@, hh')]
    /\ j' = j + 1
    /\ IF j + 1 = tabs
       THEN pc' = "feed" /\ pos' = pos + 1
       ELSE UNCHANGED <<pc, pos>>
    /\ UNCHANGED <<text, window, courses, tabs, rkbuf, hashOf, rv, emitted>>
    /\ UNCHANGED <<textVars, notShingles>>

\* the text is exhausted: rv = []
EndOfText ==
    /\ pc = "feed"
    /\ pos = Len(text)
    /\ rv' = <<>>
    /\ j' = 0
    /\ pc' = "finalize"
    /\ UNCHANGED <<text, window, courses, tabs, pos, rkbuf, hashOf, hh, heaps,
                   emitted, passed>>
    /\ UNCHANGED <<textVars, notShingles>>

\* for heap in heaps: ...; rv.append(heap)
FinalizeTab ==
    /\ pc = "finalize"
    /\ j < tabs
    /\ rv' = Append(rv, FinalizeHeap(heaps[j + 1], courses))
    /\ j' = j + 1
    /\ UNCHANGED <<text, window, courses, tabs, pos, rkbuf, hashOf, hh, heaps, pc,
                   emitted, passed>>
    /\ UNCHANGED <<textVars, notShingles>>

\* return rv
Return ==
    /\ pc = "finalize"
    /\ j = tabs
    /\ pc' = "done"
    /\ UNCHANGED <<text, window, courses, tabs, pos, rkbuf, hashOf, hh, j, heaps, rv,
                   emitted, passed>>
    /\ UNCHANGED <<textVars, notShingles>>

Next == HashByte \/ TabUpdate \/ EndOfText \/ FinalizeTab \/ Return

Spec == Init /\ [][Next]_vars

(***************************************************************************)
(* One heap under any sequence of heapUpdate calls                         *)
(***************************************************************************)
HeapItems == {U64(0), U64(1), U64(2), U64(300), Sentinel}

InitHeap ==
    /\ cap \in 1..MaxCourses
    /\ heap = NewHeap(cap)
    /\ fed = <<>>
    /\ IdleShingles
    /\ IdleScramble
    /\ IdleSim
    /\ IdleDist
    /\ IdleMat

HeapUpdateCall ==
    /\ Len(fed) < MaxUpdates
    /\ \E item \in HeapItems :
          /\ heap' = heapUpdate(heap, item)
          /\ fed' = Append(fed, item)
    /\ UNCHANGED cap
    /\ UNCHANGED notHeap

NextHeap == HeapUpdateCall

SpecHeap == InitHeap /\ [][NextHeap]_vars

(***************************************************************************)
(* scramble on a 64-bit argument                                           *)
(***************************************************************************)
ScrambleArgs ==
    {<<a, b, c, d, e, f, g, h>> :
        a \in {0, 1, 255}, b \in {0, 255}, c \in {0, 255}, d \in {0, 255},
        e \in {0, 255}, f \in {0, 255}, g \in {0, 1, 255}, h \in {0, 127, 128, 255}}

InitScramble ==
    /\ sval \in ScrambleArgs
    /\ sout = None
    /\ stimes = 0
    /\ IdleShingles
    /\ IdleHeap
    /\ IdleSim
    /\ IdleDist
    /\ IdleMat

ScrambleCall ==
    /\ sout = None
    /\ sout' = scramble(sval)
    /\ UNCHANGED <<sval, stimes>>
    /\ UNCHANGED notScramble

NextScramble == ScrambleCall

SpecScramble == InitScramble /\ [][NextScramble]_vars

(***************************************************************************)
(* scramble applied several times in sequence                              *)
(***************************************************************************)
MaxTimes == 3       \* most applications of scramble in sequence

InitTimes ==
    /\ sval \in ScrambleArgs
    /\ sout = None
    /\ stimes = 0
    /\ IdleShingles
    /\ IdleHeap
    /\ IdleSim
    /\ IdleDist
    /\ IdleMat

\* x = scramble(x), once more
ScrambleAgain ==
    /\ stimes < MaxTimes
    /\ sout' = scramble(IF stimes = 0 THEN sval ELSE sout)
    /\ stimes' = stimes + 1
    /\ UNCHANGED sval
    /\ UNCHANGED notScramble

NextTimes == ScrambleAgain

SpecTimes == InitTimes /\ [][NextTimes]_vars

(***************************************************************************)
(* simHash                                                                 *)
(***************************************************************************)
MaxTabLen == 3      \* longest list given to simHash

RECURSIVE Pow2(_)
Pow2(n) == IF n = 0 THEN 1 ELSE 2 * Pow2(n - 1)

\* x & bit is not zero, for bit = 2^k
BitSet(x, k) == (x[(k \div 8) + 1] \div Pow2(k % 8)) % 2 = 1

\* cnt after `for x in tab`, from the element i on, for bit = 2^k
RECURSIVE simHashCount(_, _, _)
simHashCount(tab, k, i) ==
    IF i > Len(tab) THEN 0
    ELSE (IF BitSet(tab[i], k) THEN 1 ELSE 0) + simHashCount(tab, k, i + 1)

\* mutant: a bit is set when cnt >= half
RECURSIVE simHashBitsAtLeast(_, _, _, _)
simHashBitsAtLeast(tab, half, k, lo) ==
    IF k < lo THEN 0
    ELSE (IF simHashCount(tab, k, 1) >= half THEN Pow2(k % 8) ELSE 0)
         + simHashBitsAtLeast(tab, half, k - 1, lo)

\* the passes of `while bit` for bit = 2^k down to 2^lo, the bits of one limb:
\* what they OR into that limb of rv
RECURSIVE simHashBits(_, _, _, _)
simHashBits(tab, half, k, lo) ==
    IF k < lo THEN 0
    ELSE (IF simHashCount(tab, k, 1) > half THEN Pow2(k % 8) ELSE 0)
         + simHashBits(tab, half, k - 1, lo)

\* mutant: half is rounded up
simHashHalfUp(tab) ==
    LET nn == Len(tab)
        half == (nn + 1) \div 2
    IN  [l \in 1..8 |-> simHashBits(tab, half, 8 * l - 1, 8 * (l - 1))]

simHash(tab) ==
    LET nn == Len(tab)
        half == nn \div 2
    IN  [l \in 1..8 |-> simHashBits(tab, half, 8 * l - 1, 8 * (l - 1))]

\* 64-bit values given to simHash and simHashesDist in the model:
\* 0, 0xFFFFFFFFFFFFFFFF, 0x8000000000000001, 0x00000000000001FF
SimVals == {U64(0), Mask64, <<1, 0, 0, 0, 0, 0, 0, 128>>, U64(511)}

SimTabs == UNION {[1..n -> SimVals] : n \in 0..MaxTabLen}

InitSim ==
    /\ stab \in SimTabs
    /\ shash = None
    /\ IdleShingles
    /\ IdleHeap
    /\ IdleScramble
    /\ IdleDist
    /\ IdleMat

SimHashCall ==
    /\ shash = None
    /\ shash' = simHash(stab)
    /\ UNCHANGED stab
    /\ UNCHANGED notSim

NextSim == SimHashCall

SpecSim == InitSim /\ [][NextSim]_vars

(***************************************************************************)
(* simHashesDistFast, simHashesDistSlow                                    *)
(***************************************************************************)
MaxVecLen == 2      \* longest list of SimHashes given to simHashesDist

RECURSIVE BitsXor(_, _, _)
BitsXor(x, y, n) ==
    IF n = 0 THEN 0
    ELSE (IF x % 2 # y % 2 THEN 1 ELSE 0) + 2 * BitsXor(x \div 2, y \div 2, n - 1)

\* a ^ b on 64-bit values
Xor64(a, b) == [i \in 1..8 |-> BitsXor(a[i], b[i], 8)]

\* the number of ones of one limb
RECURSIVE OnesOf(_)
OnesOf(v) == IF v = 0 THEN 0 ELSE (v % 2) + OnesOf(v \div 2)

\* the bits of the limbs i..1 that are set
RECURSIVE BitCountFrom(_, _)
BitCountFrom(x, i) == IF i = 0 THEN 0 ELSE OnesOf(x[i]) + BitCountFrom(x, i - 1)

\* x.bit_count()
BitCount(x) == BitCountFrom(x, 8)

\* x.bit_length(): the position of the highest bit set
BitLength(x) ==
    LET set == {k \in 0..63 : BitSet(x, k)}
    IN  IF set = {} THEN 0 ELSE 1 + CHOOSE k \in set : \A m \in set : m <= k

\* the 8 binary digits of one limb, most significant first
LimbDigits(v) == [i \in 1..8 |-> IF (v \div Pow2(8 - i)) % 2 = 1 THEN "1" ELSE "0"]

\* the 64 binary digits of x, most significant first
AllDigits(x) ==
    LimbDigits(x[8]) \o LimbDigits(x[7]) \o LimbDigits(x[6]) \o LimbDigits(x[5])
    \o LimbDigits(x[4]) \o LimbDigits(x[3]) \o LimbDigits(x[2]) \o LimbDigits(x[1])

\* bin(x): "0b", then the binary digits without leading zeros ("0b0" for 0)
Bin(x) ==
    LET digits == AllDigits(x)
        ones == {i \in 1..64 : digits[i] = "1"}
        first == IF ones = {} THEN 64 ELSE CHOOSE i \in ones : \A m \in ones : i <= m
    IN  <<"0", "b">> \o SubSeq(digits, first, 64)

\* str.count(c) for a one-character c
RECURSIVE CountChar(_, _)
CountChar(str, c) ==
    IF str = <<>> THEN 0
    ELSE (IF Head(str) = c THEN 1 ELSE 0) + CountChar(Tail(str), c)

\* the loop of simHashesDistFast over zip(aa, bb), from the pair i on
RECURSIVE DistFastFrom(_, _, _, _)
DistFastFrom(aa, bb, i, low) ==
    IF i > Min(Len(aa), Len(bb)) THEN low
    ELSE LET x == Xor64(aa[i], bb[i])
             pop == BitCount(x)
         IN  DistFastFrom(aa, bb, i + 1, Min(low, pop))

\* mutant: pop is x.bit_length()
simHashesDistFastLength(aa, bb) ==
    IF Len(aa) # Len(bb) THEN "AssertionError"
    ELSE LET lens == [i \in 1..Len(aa) |-> BitLength(Xor64(aa[i], bb[i]))]
         IN  IF lens = <<>> THEN 64
             ELSE Min(64, CHOOSE v \in {lens[i] : i \in 1..Len(lens)} :
                              \A i \in 1..Len(lens) : v <= lens[i])

\* mutant: the average of the counts, as the docstring has it
simHashesDistFastAverage(aa, bb) ==
    IF Len(aa) # Len(bb) THEN "AssertionError"
    ELSE IF aa = <<>> THEN 64
    ELSE LET Sum[i \in 0..Len(aa)] ==
                 IF i = 0 THEN 0 ELSE Sum[i - 1] + BitCount(Xor64(aa[i], bb[i]))
         IN  Sum[Len(aa)] \div Len(aa)

simHashesDistFast(aa, bb) ==
    IF Len(aa) # Len(bb) THEN "AssertionError"
    ELSE DistFastFrom(aa, bb, 1, 64)

\* the loop of simHashesDistSlow over zip(aa, bb), from the pair i on
RECURSIVE DistSlowFrom(_, _, _, _)
DistSlowFrom(aa, bb, i, low) ==
    IF i > Min(Len(aa), Len(bb)) THEN low
    ELSE LET x == Xor64(aa[i], bb[i])
             pop == CountChar(Bin(x), "1")
         IN  DistSlowFrom(aa, bb, i + 1, Min(low, pop))

simHashesDistSlow(aa, bb) ==
    IF Len(aa) # Len(bb) THEN "AssertionError"
    ELSE DistSlowFrom(aa, bb, 1, 64)

\* two lists of SimHashes of the same length; dfast and dslow hold the value
\* returned, in a one-element tuple, once the function has returned
InitDist ==
    /\ \E n \in 0..MaxVecLen :
          /\ daa \in [1..n -> SimVals]
          /\ dbb \in [1..n -> SimVals]
    /\ dfast = None
    /\ dslow = None
    /\ IdleShingles
    /\ IdleHeap
    /\ IdleScramble
    /\ IdleSim
    /\ IdleMat

DistFastCall ==
    /\ mpc = "idle" /\ pc = "idle"
    /\ dfast = None
    /\ dfast' = <<simHashesDistFast(daa, dbb)>>
    /\ UNCHANGED <<daa, dbb, dslow>>
    /\ UNCHANGED notDist

DistSlowCall ==
    /\ mpc = "idle" /\ pc = "idle"
    /\ dslow = None
    /\ dslow' = <<simHashesDistSlow(daa, dbb)>>
    /\ UNCHANGED <<daa, dbb, dfast>>
    /\ UNCHANGED notDist

NextDist == DistFastCall \/ DistSlowCall

SpecDist == InitDist /\ [][NextDist]_vars

(***************************************************************************)
(* sortedVectorCmp, shinglesDist                                           *)
(***************************************************************************)
MaxDistTabs == 2    \* most tabs of a matrix given to shinglesDist

\* mutant: the first test is aVal <= bVal, so equal values are never matched
RECURSIVE sortedVectorCmpLoopNoMatch(_, _, _, _, _)
sortedVectorCmpLoopNoMatch(aVec, bVec, aIdx, bIdx, matches) ==
    IF ~(aIdx < Len(aVec) /\ bIdx < Len(bVec)) THEN matches
    ELSE LET aVal == At(aVec, aIdx)
             bVal == At(bVec, bIdx)
         IN  IF ~Lt64(bVal, aVal)
             THEN sortedVectorCmpLoopNoMatch(aVec, bVec, aIdx + 1, bIdx, matches)
             ELSE sortedVectorCmpLoopNoMatch(aVec, bVec, aIdx, bIdx + 1, matches)

\* mutant: a match advances aIdx only
RECURSIVE sortedVectorCmpLoopKeepB(_, _, _, _, _)
sortedVectorCmpLoopKeepB(aVec, bVec, aIdx, bIdx, matches) ==
    IF ~(aIdx < Len(aVec) /\ bIdx < Len(bVec)) THEN matches
    ELSE LET aVal == At(aVec, aIdx)
             bVal == At(bVec, bIdx)
         IN  IF Lt64(aVal, bVal)
             THEN sortedVectorCmpLoopKeepB(aVec, bVec, aIdx + 1, bIdx, matches)
             ELSE IF Lt64(bVal, aVal)
             THEN sortedVectorCmpLoopKeepB(aVec, bVec, aIdx, bIdx + 1, matches)
             ELSE sortedVectorCmpLoopKeepB(aVec, bVec, aIdx + 1, bIdx, matches + 1)

\* the while loop of sortedVectorCmp; the value is matches when it ends
RECURSIVE sortedVectorCmpLoop(_, _, _, _, _)
sortedVectorCmpLoop(aVec, bVec, aIdx, bIdx, matches) ==
    IF ~(aIdx < Len(aVec) /\ bIdx < Len(bVec)) THEN matches
    ELSE LET aVal == At(aVec, aIdx)
             bVal == At(bVec, bIdx)
         IN  IF Lt64(aVal, bVal)
             THEN sortedVectorCmpLoop(aVec, bVec, aIdx + 1, bIdx, matches)
             ELSE IF Lt64(bVal, aVal)
             THEN sortedVectorCmpLoop(aVec, bVec, aIdx, bIdx + 1, matches)
             ELSE sortedVectorCmpLoop(aVec, bVec, aIdx + 1, bIdx + 1, matches + 1)

\* mutant: the length returned is aLen
sortedVectorCmpLenA(aVec, bVec) ==
    LET aLen == Len(aVec)
    IN  <<sortedVectorCmpLoop(aVec, bVec, 0, 0, 0), aLen>>

\* the tuple (match_count, max_length)
sortedVectorCmp(aVec, bVec) ==
    LET aLen == Len(aVec)
        bLen == Len(bVec)
    IN  <<sortedVectorCmpLoop(aVec, bVec, 0, 0, 0), Max(aLen, bLen)>>

\* A float is modelled by the exact fraction <<p, q>>, q > 0: the integers
\* here have a few bits, so they convert exactly and the quotient is rounded
\* once, which keeps order and keeps 0 and 1.
Frac(p, q) == <<p, q>>
FracEq(x, y) == x[1] * y[2] = y[1] * x[2]
FracLe(x, y) == x[1] * y[2] <= y[1] * x[2]

\* mutant: 0.0 for denom == 0
shinglesDistReturnZero(n, d) ==
    IF d = 0 THEN Frac(0, 1) ELSE Frac(d - n, d)

\* mutant: (denom + numer) / denom
shinglesDistReturnPlus(n, d) ==
    IF d = 0 THEN Frac(1, 1) ELSE Frac(d + n, d)

\* the two return statements of shinglesDist
shinglesDistReturn(n, d) ==
    IF d = 0 THEN Frac(1, 1) ELSE Frac(d - n, d)

\* the loop of shinglesDist from ii on; the value is (numer, denom) at its end
RECURSIVE shinglesDistLoop(_, _, _, _, _)
shinglesDistLoop(aa, bb, ii, n, d) ==
    IF ii >= Len(aa) THEN <<n, d>>
    ELSE LET nd == sortedVectorCmp(At(aa, ii), At(bb, ii))
         IN  shinglesDistLoop(aa, bb, ii + 1, n + nd[1], d + nd[2])

\* shinglesDist(aa, bb) as one value
shinglesDist(aa, bb) ==
    IF Len(aa) # Len(bb) THEN "AssertionError"
    ELSE LET sums == shinglesDistLoop(aa, bb, 0, 0, 0)
         IN  shinglesDistReturn(sums[1], sums[2])

\* sorted lists as shinglesCalc returns them: empty, with a repeated value,
\* with values that differ in several bytes, with the fill value
MatTabs ==
    { <<>>,
      <<U64(1)>>,
      <<U64(1), U64(1)>>,
      <<U64(2), U64(300)>>,
      <<U64(1), U64(2), Sentinel>> }

\* the state after aLen, bLen, the assertion, numer = 0 and denom = 0
InitMat ==
    /\ \E n \in 0..MaxDistTabs :
          /\ maa \in [1..n -> MatTabs]
          /\ mbb \in [1..n -> MatTabs]
    /\ mii = 0
    /\ numer = 0
    /\ denom = 0
    /\ mdist = None
    /\ mpc = "loop"
    /\ IdleShingles
    /\ IdleHeap
    /\ IdleScramble
    /\ IdleSim
    /\ IdleDist

\* one pass of "for ii in range(aLen)"
CompareTabs ==
    /\ mpc = "loop"
    /\ mii < Len(maa)
    /\ LET nd == sortedVectorCmp(At(maa, mii), At(mbb, mii))
       IN  /\ numer' = numer + nd[1]
           /\ denom' = denom + nd[2]
    /\ mii' = mii + 1
    /\ UNCHANGED <<maa, mbb, mdist, mpc>>
    /\ UNCHANGED notMat

\* the end of the loop and the return
DistReturn ==
    /\ mpc = "loop"
    /\ mii = Len(maa)
    /\ mdist' = shinglesDistReturn(numer, denom)
    /\ mpc' = "done"
    /\ UNCHANGED <<maa, mbb, mii, numer, denom>>
    /\ UNCHANGED notMat

NextMat == CompareTabs \/ DistReturn

SpecMat == InitMat /\ [][NextMat]_vars

(***************************************************************************)
(* simHashText                                                             *)
(***************************************************************************)
\* the call of simHashText(text, window, courses, tabs), before its first line
InitText ==
    /\ text \in Texts
    /\ window \in 1..MaxWindow
    /\ courses \in 0..MaxCourses
    /\ tabs \in 0..MaxTabs
    /\ pos = 0
    /\ rkbuf = <<>>
    /\ hashOf = <<>>
    /\ hh = None
    /\ j = 0
    /\ heaps = <<>>
    /\ rv = <<>>
    /\ pc = "assert"
    /\ emitted = <<>>
    /\ passed = <<>>
    /\ sims = None
    /\ IdleHeap
    /\ IdleScramble
    /\ IdleSim
    /\ IdleDist
    /\ IdleMat

\* mutant: no assertion, shinglesCalc is entered with any courses
AssertCoursesSkipped ==
    /\ pc = "assert"
    /\ pc' = "feed"
    /\ heaps' = [t \in 1..tabs |-> NewHeap(courses)]
    /\ passed' = [t \in 1..tabs |-> <<>>]
    /\ UNCHANGED <<text, window, courses, tabs, pos, rkbuf, hashOf, hh, j, rv, emitted>>
    /\ UNCHANGED <<textVars, notShingles>>

\* assert (courses & 1) == 1, then the entry of shinglesCalc: ww and heaps
AssertCourses ==
    /\ pc = "assert"
    /\ IF courses % 2 = 1
       THEN /\ pc' = "feed"
            /\ heaps' = [t \in 1..tabs |-> NewHeap(courses)]
            /\ passed' = [t \in 1..tabs |-> <<>>]
       ELSE /\ pc' = "failed"
            /\ UNCHANGED <<heaps, passed>>
    /\ UNCHANGED <<text, window, courses, tabs, pos, rkbuf, hashOf, hh, j, rv, emitted>>
    /\ UNCHANGED <<textVars, notShingles>>

\* mutant: a tab without shingles gets no SimHash
SimHashTabsSkipEmpty ==
    /\ pc = "done"
    /\ sims' = LET kept == SelectSeq(rv, LAMBDA tab : \E i \in 1..Len(tab) : tab[i] # U64(0))
               IN  [t \in 1..Len(kept) |-> simHash(kept[t])]
    /\ pc' = "returned"
    /\ UNCHANGED <<text, window, courses, tabs, pos, rkbuf, hashOf, hh, j, heaps, rv,
                   emitted, passed>>
    /\ UNCHANGED notShingles

\* return [simHash(hh) for hh in shingles]
SimHashTabs ==
    /\ pc = "done"
    /\ sims' = [t \in 1..Len(rv) |-> simHash(rv[t])]
    /\ pc' = "returned"
    /\ UNCHANGED <<text, window, courses, tabs, pos, rkbuf, hashOf, hh, j, heaps, rv,
                   emitted, passed>>
    /\ UNCHANGED notShingles

NextText ==
    AssertCourses \/ HashByte \/ TabUpdate \/ EndOfText \/ FinalizeTab \/ Return
    \/ SimHashTabs

SpecText == InitText /\ [][NextText]_vars

(***************************************************************************)
(* Properties                                                              *)
(***************************************************************************)
\* v is a value of [0, 2^64)
IsU64(v) == /\ DOMAIN v = 1..8
            /\ \A i \in 1..8 : v[i] \in 0..255

IsSortedAsc(list) == \A i \in 1..(Len(list) - 1) : ~Lt64(list[i + 1], list[i])

Values(list) == {list[i] : i \in 1..Len(list)}

\* scramble applied n times in sequence
RECURSIVE ScrambleTimes(_, _)
ScrambleTimes(v, n) == IF n = 0 THEN v ELSE scramble(ScrambleTimes(v, n - 1))

\* the stream tab t (1-based) is fed: every emitted hash scrambled t times
TabStream(t) == [i \in 1..Len(emitted) |-> ScrambleTimes(emitted[i], t)]

Zeros(n) == [i \in 1..n |-> U64(0)]

CeilDiv(a, b) == (a \div b) + (IF a % b = 0 THEN 0 ELSE 1)

\* C1: for a non-empty text and window <= len(text), every tab list returned by
\* shinglesCalc has length exactly `courses`.
C1_LengthExactlyCourses ==
    (pc = "done" /\ Len(text) >= 1 /\ window <= Len(text))
        => \A t \in 1..tabs : Len(rv[t]) = courses

\* C2: every tab list returned by shinglesCalc is sorted in ascending
\* (non-decreasing) order, whichever finalization branch produced it.
C2_TabsSortedAscending ==
    pc \in {"finalize", "done"} => \A t \in 1..Len(rv) : IsSortedAsc(rv[t])

\* a run that ended with one tab finalized by the replicated fallback and another
\* by the exactly-courses branch, whose values had to be reordered
C2_Witness ==
    /\ pc = "done"
    /\ \E t \in 1..tabs :
          /\ Len(Retained(heaps[t])) = courses
          /\ rv[t] # Retained(heaps[t])
    /\ \E t \in 1..tabs : Len(Retained(heaps[t])) \in 1..(courses - 1)

\* C3: when at least `courses` hashes were emitted, the list returned for tab t is
\* the ascending sort of the `courses` smallest values of the stream of tab t.
C3_SmallestOfStream ==
    (pc = "done" /\ Len(emitted) >= courses)
        => \A t \in 1..tabs : rv[t] = SliceTo(SortAsc(TabStream(t)), courses)

\* C4: the non-sentinel values held in the heap are exactly the min(k, courses)
\* smallest, with multiplicity, of the k items passed so far.
C4_HoldsSmallestItems ==
    pc = "idle" /\ cap > 0
        => SortAsc(Retained(heap)) = SliceTo(SortAsc(fed), Min(Len(fed), cap))

\* C5 as stated: the root (slot 1) always equals the maximum of the retained
\* set, the real values currently kept.
C5_RootIsMaxOfRetained ==
    (cap > 0 /\ Retained(heap) # <<>>)
        => At(heap, 1) = SortAsc(Retained(heap))[Len(Retained(heap))]

\* C5 amended: the root is the maximum of slots 1..c, an unfilled slot counting
\* as the sentinel: it is the maximum of the retained set once all c slots hold
\* real values, and the sentinel while any slot is unfilled.
C5_RootIsMaxOfSlots ==
    cap > 0 =>
        /\ \A i \in 1..cap : ~Lt64(At(heap, 1), At(heap, i))
        /\ Len(Retained(heap)) = cap
              => At(heap, 1) = SortAsc(Retained(heap))[cap]
        /\ Len(Retained(heap)) < cap => At(heap, 1) = Sentinel

\* a full heap of at least two slots whose root is a real value that displaced
\* an earlier, larger item
C5_Witness ==
    /\ cap >= 2
    /\ Len(Retained(heap)) = cap
    /\ \E i \in 1..Len(fed) : Lt64(At(heap, 1), fed[i]) /\ fed[i] # Sentinel

\* C6: the heap list keeps its length courses + 1 and the number of retained
\* real (non-sentinel) values never exceeds `courses`.
C6_RetainedWithinCapacity ==
    cap > 0 =>
        /\ Len(heap) = cap + 1
        /\ Len(Retained(heap)) <= cap

\* more real items were passed than the heap has slots, and every slot is filled
C6_Witness ==
    /\ cap > 0
    /\ Len(Retained(fed)) > cap
    /\ Len(Retained(heap)) = cap

\* C7: when the text yields no rolling hash (empty text, or text shorter than
\* `window`), shinglesCalc runs to its return and returns `tabs` lists, each
\* [0] * courses.
C7_NoHashAllZero ==
    /\ (pc \in {"feed", "tabs", "finalize"} /\ Len(text) < window) => ENABLED Next
    /\ (pc = "done" /\ Len(text) < window)
          => /\ Len(rv) = tabs
             /\ \A t \in 1..tabs : rv[t] = Zeros(courses)

\* a non-empty text shorter than the window, processed to the end
C7_Witness == pc = "done" /\ Len(text) >= 1 /\ Len(text) < window /\ tabs >= 2

LastTab ==
    IF pc = "tabs" THEN j
    ELSE IF pc = "feed" /\ hh # None THEN tabs
    ELSE 0

\* C9: for every emitted hash h and every tab t (0-based), the value passed to
\* heapUpdate for tab t is scramble applied t + 1 times to h.  `passed` only
\* grows, so the formula looks at the item passed by the last step: every item
\* passed is that item in the state that follows its heapUpdate.
C9_ProgressiveScramble ==
    pc # "idle" =>
        /\ \A t \in 1..tabs :
              Len(passed[t]) = Len(emitted) - (IF pc = "tabs" /\ t > j THEN 1 ELSE 0)
        /\ LastTab > 0 =>
              passed[LastTab][Len(emitted)] = ScrambleTimes(emitted[Len(emitted)], LastTab)

\* two tabs, each of which was passed at least two hashes
C9_Witness ==
    /\ tabs = 2
    /\ Len(passed[1]) >= 2
    /\ Len(passed[2]) >= 2
    /\ passed[2][2] # passed[1][2]

\* 0x5851F42D4C957F2D = 6364136223846793005
RefMul == <<45, 127, 149, 76, 45, 244, 81, 88>>

\* 0x7FFFFFFFFFFFFFE7 = 9223372036854775783
RefAdd == <<231, 255, 255, 255, 255, 255, 255, 127>>

\* (a + b) mod 2^64
AddMod64(a, b) == SubSeq(AddBig(a, b), 1, 8)

\* (x * m) mod 2^64 for one limb m, from limb i of x on
RECURSIVE TimesLimbFrom(_, _, _, _)
TimesLimbFrom(x, m, i, carry) ==
    IF i > 8 THEN <<>>
    ELSE LET s == x[i] * m + carry
         IN  <<s % 256>> \o TimesLimbFrom(x, m, i + 1, s \div 256)

\* (x * c) mod 2^64 limb by limb of c, most significant first:
\* x * c = x * c[i] + 256 * (x * the limbs of c above i)
RECURSIVE MulMod64From(_, _, _)
MulMod64From(x, c, i) ==
    IF i > 8 THEN U64(0)
    ELSE LET high == MulMod64From(x, c, i + 1)
         IN  AddMod64(TimesLimbFrom(x, c[i], 1, 0), <<0>> \o SubSeq(high, 1, 7))

\* (x * 6364136223846793005 + 9223372036854775783) mod 2^64
RefScramble(x) == AddMod64(MulMod64From(x, RefMul, 1), RefAdd)

\* C10: for every x in [0, 2^64), scramble(x) equals
\* (x * 6364136223846793005 + 9223372036854775783) mod 2^64 and lies in [0, 2^64).
C10_ScrambleFormula ==
    sout # None => /\ sout = RefScramble(sval)
                   /\ IsU64(sout)

\* scramble was applied to an argument whose product with the multiplier
\* exceeds 64 bits
C10_Witness == sout # None /\ sval[8] >= 128 /\ sval[1] = 255

\* the number of elements of a list that have bit k set
Having(list, k) == Cardinality({i \in 1..Len(list) : BitSet(list[i], k)})

\* C11: simHash(tab) has bit i set, for each of the 64 bit positions, if and only
\* if the number of elements of tab with bit i set exceeds half the length of tab.
C11_MajorityBits ==
    shash # None =>
        \A k \in 0..63 : BitSet(shash, k) <=> 2 * Having(stab, k) > Len(stab)

\* three elements that disagree: some bits win the vote and some lose it
C11_Witness ==
    /\ shash # None
    /\ Len(stab) = 3
    /\ \E k \in 0..63 : Having(stab, k) = 2 /\ BitSet(shash, k)
    /\ \E k \in 0..63 : Having(stab, k) = 1 /\ ~BitSet(shash, k)

\* C12: for an even-length list a bit set in exactly half of the elements is
\* left 0 in the result, and no call raises; simHash of the empty list is 0.
C12_TiesAreZero ==
    shash # None =>
        /\ IsU64(shash)
        /\ \A k \in 0..63 : 2 * Having(stab, k) = Len(stab) => ~BitSet(shash, k)
        /\ stab = <<>> => shash = U64(0)

\* two elements that differ in some bit and agree on a set bit
C12_Witness ==
    /\ shash # None
    /\ Len(stab) = 2
    /\ \E k \in 0..63 : Having(stab, k) = 1 /\ ~BitSet(shash, k)
    /\ \E k \in 0..63 : Having(stab, k) = 2 /\ BitSet(shash, k)

\* the number of bit positions in which a and b differ
Hamming(a, b) == Cardinality({k \in 0..63 : BitSet(a, k) # BitSet(b, k)})

\* the Hamming distances of the corresponding pairs of daa and dbb
PairDistances == {Hamming(daa[i], dbb[i]) : i \in 1..Len(daa)}

\* d is the least of the Hamming distances of the pairs
IsLeastDistance(d) == d \in PairDistances /\ \A e \in PairDistances : d <= e

RECURSIVE SumOfDistances(_)
SumOfDistances(i) ==
    IF i = 0 THEN 0 ELSE Hamming(daa[i], dbb[i]) + SumOfDistances(i - 1)

C14_AverageDistance ==
    daa # <<>> =>
        /\ dfast # None => dfast[1] * Len(daa) = SumOfDistances(Len(daa))
        /\ dslow # None => dslow[1] * Len(daa) = SumOfDistances(Len(daa))

\* C15: simHashesDist(V, V) == 0 for any SimHash vector V, the empty one included.
C15_SelfDistanceZero ==
    daa = dbb =>
        /\ dfast # None => dfast[1] = 0
        /\ dslow # None => dslow[1] = 0

\* C20: for all 64-bit a and b the fast population count of a XOR b and the slow
\* one agree, so simHashesDistFast(A, B) == simHashesDistSlow(A, B).
C20_FastEqualsSlow ==
    /\ \A i \in 1..Len(daa) :
          BitCount(Xor64(daa[i], dbb[i])) = CountChar(Bin(Xor64(daa[i], dbb[i])), "1")
    /\ (dfast # None /\ dslow # None) => dfast = dslow

\* both functions ran on two pairs and returned a distance that is neither 0 nor 64
C20_Witness ==
    /\ Len(daa) = 2
    /\ dfast # None /\ dslow # None
    /\ dfast[1] \in 1..63
    /\ daa[1] # daa[2]

\* the match count of the tabs 1..i of maa and mbb, and their larger lengths
RECURSIVE TotalMatches(_)
TotalMatches(i) ==
    IF i = 0 THEN 0 ELSE sortedVectorCmp(maa[i], mbb[i])[1] + TotalMatches(i - 1)

RECURSIVE TotalMaxLen(_)
TotalMaxLen(i) ==
    IF i = 0 THEN 0 ELSE Max(Len(maa[i]), Len(mbb[i])) + TotalMaxLen(i - 1)

\* C16: shinglesDist(A, B), for matrices with the same number of tabs, returns
\* (D - N) / D, N the sum over the tabs of the match counts and D the sum over
\* the tabs of the larger of the two tab lengths, and 1.0 when D == 0.
C16_DistanceFormula ==
    mpc = "done" =>
        LET N == TotalMatches(Len(maa))
            D == TotalMaxLen(Len(maa))
        IN  /\ numer = N /\ denom = D
            /\ D = 0 => FracEq(mdist, Frac(1, 1))
            /\ D # 0 => mdist[2] # 0 /\ FracEq(mdist, Frac(D - N, D))

\* two tabs of different lengths, some values matched and some not
C16_Witness ==
    /\ mpc = "done"
    /\ Len(maa) = 2
    /\ Len(maa[1]) # Len(mbb[1])
    /\ numer > 0
    /\ numer < denom
    /\ mdist = Frac(denom - numer, denom)

\* C17: shinglesDist(M, M) == 0.0 for any matrix M with at least one non-empty
\* tab whose tabs are sorted ascending, tabs with repeated values included.
C17_SelfDistanceZero ==
    (/\ mpc = "done"
     /\ maa = mbb
     /\ \E t \in 1..Len(maa) : maa[t] # <<>>)
        => FracEq(mdist, Frac(0, 1))

\* a matrix with a repeated value in one tab, compared with itself
C17_Witness ==
    /\ mpc = "done"
    /\ maa = mbb
    /\ \E t \in 1..Len(maa) : maa[t] = <<U64(1), U64(1)>>
    /\ mdist[1] = 0 /\ mdist[2] > 0

\* C18: for two matrices with the same number of tabs shinglesDist returns a
\* value in [0, 1]: the summed match count never exceeds the summed max length.
C18_DistanceInUnitInterval ==
    /\ numer <= denom
    /\ mpc = "done" =>
          /\ mdist[2] > 0
          /\ FracLe(Frac(0, 1), mdist)
          /\ FracLe(mdist, Frac(1, 1))

\* a distance strictly between 0 and 1
C18_Witness ==
    /\ mpc = "done"
    /\ mdist[1] > 0
    /\ mdist[1] < mdist[2]

\* C19: simHashText with an even courses fails with an assertion failure before
\* any shingle computation is done; with an odd courses the assertion passes
\* and a result is returned.
C19_EvenCoursesFailFast ==
    /\ courses % 2 = 0 =>
          /\ pc \in {"assert", "failed"}
          /\ pos = 0 /\ rkbuf = <<>> /\ emitted = <<>>
          /\ heaps = <<>> /\ rv = <<>> /\ sims = None
    /\ courses % 2 = 1 =>
          /\ pc \in {"assert", "feed", "tabs", "finalize", "done", "returned"}
          /\ pc = "feed" => pos <= Len(text)
          /\ pc = "tabs" => j < tabs
          /\ pc = "finalize" => j <= tabs
          /\ pc = "returned" =>
                /\ Len(sims) = tabs
                /\ \A t \in 1..tabs : IsU64(sims[t])

\* an odd courses, a text with shingles, and the list of SimHashes returned
C19_Witness ==
    /\ courses % 2 = 1
    /\ pc = "returned"
    /\ emitted # <<>>
    /\ sims # None
    /\ \E t \in 1..tabs : sims[t] # U64(0)

\* C21: for odd courses simHashText(text, window, courses, tabs) returns a list
\* of exactly tabs integers, each in [0, 2^64), for any text, the empty text
\* and a text shorter than window included.
C21_TabsSimHashes ==
    (pc = "returned" /\ courses % 2 = 1) =>
        /\ Len(sims) = tabs
        /\ \A t \in 1..Len(sims) :
              /\ Len(sims[t]) = 8
              /\ \A l \in 1..8 : sims[t][l] \in 0..255

\* a text shorter than the window, two tabs, two SimHashes
C21_Witness ==
    /\ pc = "returned"
    /\ courses % 2 = 1
    /\ Len(text) < window
    /\ tabs = 2
    /\ Len(sims) = 2

\* the heapUpdate calls a tab's heap is due once n bytes were fed
UpdatesAfter(n) == Max(0, n - window + 1)

\* C22: while shinglesCalc feeds a text of length L into a window of size w, no
\* heap is updated before w bytes were fed, and from the w-th byte on every byte
\* causes exactly one heapUpdate per tab: each heap gets max(0, L - w + 1) updates.
C22_UpdatesPerTab ==
    \A t \in 1..tabs :
        /\ pc = "feed" => Len(passed[t]) = UpdatesAfter(pos)
        /\ pc = "tabs" =>
              /\ pos + 1 >= window
              /\ Len(passed[t]) = IF t <= j THEN UpdatesAfter(pos + 1)
                                            ELSE UpdatesAfter(pos)
        /\ pc \in {"finalize", "done"} => Len(passed[t]) = UpdatesAfter(Len(text))

\* a text longer than the window went through two heaps
C22_Witness ==
    /\ pc = "done"
    /\ tabs = 2
    /\ window = 2
    /\ Len(text) = 3
    /\ Len(passed[1]) = 2 /\ Len(passed[2]) = 2

\* C23: in every call simHashText (with odd courses) makes to simHash the list
\* passed has odd length, so no majority-vote tie can arise for any text.
C23_OddLengthLists ==
    (pc = "returned" /\ courses % 2 = 1) =>
        \A t \in 1..Len(rv) :
            /\ Len(rv[t]) % 2 = 1
            /\ \A k \in 0..63 : 2 * Having(rv[t], k) # Len(rv[t])

\* C24: the 1-based max-heap order holds after every heapUpdate: from the
\* all-sentinel heap on, heap[i] >= heap[2i] and heap[i] >= heap[2i + 1] for
\* every i whose child index lies within 1..courses.
C24_MaxHeapOrder ==
    cap > 0 =>
        \A i \in 1..cap :
            \A kid \in {2 * i, 2 * i + 1} :
                kid <= cap => ~Lt64(At(heap, i), At(heap, kid))

\* a full heap of three slots that took an item smaller than both kids of its
\* root, so that downHeap had to move a kid up
C24_Witness ==
    /\ cap = 3
    /\ Len(Retained(heap)) = cap
    /\ Len(fed) > cap
    /\ Lt64(fed[Len(fed)], At(heap, 1))
    /\ fed[Len(fed)] \in {At(heap, 2), At(heap, 3)}

\* the item of the heapUpdate call that a step makes
ItemOfStep == fed'[Len(fed')]

\* C28: heapUpdate(heap, item) with item >= heap[1] leaves every slot of the
\* heap unchanged, and no heapUpdate writes slot 0, which keeps the sentinel.
C28_HeapUpdateFrame ==
    [][/\ ~Lt64(ItemOfStep, At(heap, 1)) => heap' = heap
       /\ At(heap', 0) = At(heap, 0)
       /\ At(heap', 0) = Sentinel]_heapVars

\* a full heap, whose root is a real value, was passed a larger real item
C28_Witness ==
    /\ cap >= 2
    /\ Len(fed) > cap
    /\ Len(Retained(heap)) = cap
    /\ Lt64(At(heap, 1), fed[Len(fed)])
    /\ fed[Len(fed)] # Sentinel
    /\ At(heap, 0) = Sentinel

\* C29: across any sequence of heapUpdate calls the root heap[1] never
\* increases: after each call it is at most its value before the call.
C29_RootNeverIncreases ==
    [][~Lt64(At(heap, 1), At(heap', 1))]_heapVars

\* the root went down from the sentinel to a real value, then to a smaller one
C29_Witness ==
    /\ cap >= 2
    /\ Len(Retained(heap)) = cap
    /\ \E i \in 1..Len(fed) :
          /\ fed[i] # Sentinel
          /\ Lt64(At(heap, 1), fed[i])
          /\ \E k \in (i + 1)..Len(fed) : Lt64(fed[k], fed[i])

\* (a * b) mod 2^64
MulMod64(a, b) == MulMod64From(a, b, 1)

\* C1^t mod 2^64, C1 the multiplier of scramble
RECURSIVE PowerOfMul(_)
PowerOfMul(t) == IF t = 0 THEN U64(1) ELSE MulMod64(PowerOfMul(t - 1), RefMul)

\* (C1^(t-1) + ... + C1 + 1) mod 2^64
RECURSIVE GeometricSum(_)
GeometricSum(t) ==
    IF t = 0 THEN U64(0) ELSE AddMod64(PowerOfMul(t - 1), GeometricSum(t - 1))

\* (C1^t * x + C2 * (C1^(t-1) + ... + C1 + 1)) mod 2^64
Compounded(x, t) ==
    AddMod64(MulMod64(PowerOfMul(t), x), MulMod64(RefAdd, GeometricSum(t)))

\* C27: scramble is deterministic, and applying it t times in sequence to x
\* gives (C1^t * x + C2 * (C1^(t-1) + ... + C1 + 1)) mod 2^64, for every x in
\* [0, 2^64) and t >= 1.
C27_CompoundedScramble ==
    stimes >= 1 =>
        /\ sout = Compounded(sval, stimes)
        /\ sout = ScrambleTimes(sval, stimes)

\* three applications in sequence to an argument with the top bit set
C27_Witness ==
    /\ stimes = 3
    /\ sval[8] >= 128
    /\ sout # scramble(sval)

\* how often v occurs in list
Count(list, v) == Cardinality({i \in 1..Len(list) : list[i] = v})

\* the size of the intersection of two lists: a value occurring p times in one
\* and q times in the other counts min(p, q) times
RECURSIVE IntersectionOver(_, _, _)
IntersectionOver(A, B, vals) ==
    IF vals = {} THEN 0
    ELSE LET v == CHOOSE x \in vals : TRUE
         IN  Min(Count(A, v), Count(B, v)) + IntersectionOver(A, B, vals \ {v})

IntersectionSize(A, B) == IntersectionOver(A, B, Values(A))

\* C25: for two ascending-sorted lists A and B, sortedVectorCmp(A, B) returns
\* (matches, max_len), matches the size of the intersection of the two lists (a
\* value occurring p times in A and q times in B counted min(p, q) times) and
\* max_len = max(len(A), len(B)).
C25_MultisetIntersection ==
    \A t \in 1..Len(maa) :
        sortedVectorCmp(maa[t], mbb[t])
            = <<IntersectionSize(maa[t], mbb[t]), Max(Len(maa[t]), Len(mbb[t]))>>

\* a value that occurs twice in one list and once in the other was compared
C25_Witness ==
    /\ mii >= 1
    /\ maa[1] = <<U64(1), U64(1)>>
    /\ mbb[1] = <<U64(1), U64(2), Sentinel>>
    /\ numer = 1
    /\ denom = 3

\* C30: shinglesDist is symmetric: for two matrices A, B with the same number
\* of tabs and ascending-sorted tabs (repeated values allowed),
\* shinglesDist(A, B) == shinglesDist(B, A).
C30_DistanceSymmetric ==
    mpc = "done" =>
        /\ FracEq(mdist, shinglesDist(maa, mbb))
        /\ FracEq(mdist, shinglesDist(mbb, maa))

\* two different matrices with tabs of different lengths and a repeated value
C30_Witness ==
    /\ mpc = "done"
    /\ Len(maa) = 2
    /\ maa # mbb
    /\ Len(maa[1]) < Len(mbb[1])
    /\ Len(maa[2]) > Len(mbb[2])
    /\ \E t \in 1..2 : maa[t] = <<U64(1), U64(1)>>
    /\ mdist[1] > 0

\* C26: the tabs heaps of shinglesCalc are independent: a heapUpdate on the
\* heap of tab i leaves the heap of every other tab unchanged (no two tabs
\* share a list).
C26_HeapsIndependent ==
    [][\A t \in 1..tabs :
          heaps'[t] # heaps[t] => (pc = "tabs" /\ t = j + 1 /\ j' = j + 1)]_shingleVars

\* the heap of the first tab has taken an item, the heap of the second is as built
C26_Witness ==
    /\ tabs = 2
    /\ pc = "tabs"
    /\ j = 1
    /\ heaps[1] # NewHeap(courses)
    /\ heaps[2] = NewHeap(courses)
    /\ Len(passed[1]) = 1

====
